---- MODULE Spec2Model ----
(***************************************************************************)
(* A model of gwpy.plot.axes.Axes (src/gwpy/plot/axes.py): the extension   *)
(* of the matplotlib Axes that gwpy registers as the default projection.   *)
(* Each overridden method is one action; what the method hands to the     *)
(* base class is recorded in `base`, what it returns in `ret`, and the     *)
(* exception that leaves it (if any) in `raised`.                          *)
(***************************************************************************)
EXTENDS Integers, Sequences, FiniteSets, TLC

\* xaxis, yaxis : the two axis objects (scale, transform epoch, label)
\* rcParams     : the global matplotlib settings the methods read
\* call         : the method call being made, with its arguments
\* pc           : "idle" (no call pending), "called" or "returned"
\* base         : what the method handed to the base class
\* ret, raised  : what the method returned / the exception that left it
\* dist         : the distutils Distribution of setup_utils (command record,
\*                command objects, files written)
VARIABLES xaxis, yaxis, rcParams, call, pc, base, ret, raised, dist

vars == <<xaxis, yaxis, rcParams, call, pc, base, ret, raised, dist>>

\* ---- bounds ------------------------------------------------------------
\* largest epoch (in days after the GPS origin) an axis transform is given
MaxEpoch == 1
\* longest x/y/c array handed to scatter
MaxPoints == 3
\* largest colour value in a scatter colour array
MaxColor == 2
\* most positional arguments of one line-plot call
MaxArgs == 3
\* most git tags the repository has
MaxTags == 2
\* largest span boundary of an Array2D
MaxSpan == 1
\* how many different axes.linewidth settings the rc settings take
MaxRcWidth == 2

\* ---- python values -----------------------------------------------------
None == [t |-> "None"]
NoExc == "none"

\* a float with a whole and a nanosecond part (GPS times need both)
Num(sec, ns) == [t |-> "num", sec |-> sec, ns |-> ns]
\* a python str, kept as its characters
Str(chars) == [t |-> "str", s |-> chars]
\* a two-element tuple
Pair(a, b) == [t |-> "seq", items |-> <<a, b>>]
\* an object that is neither a number, a string nor a sequence
Obj == [t |-> "object"]

\* ---- GPS scales (gwpy.plot.gps) -----------------------------------------
GPS_SCALES == {"auto-gps"}
Scales == {"linear", "log", "auto-gps"}

\* the label matplotlib gives an axis that was never labelled
DefaultLabel == [kind |-> "text", text |-> ""]
CustomLabel == [kind |-> "text", text |-> "custom"]

\* astropy Time(epoch, format='gps', scale='utc').iso with the trailing
\* zeros and dot stripped: the calendar day the epoch falls on
Iso(epoch) == <<1980, 1, 6 + epoch>>

\* unit name of the transform of a GPS scale
get_unit_name(scale) == IF scale = "auto-gps" THEN "s" ELSE "?"

\* 'Time [{unit}] from {utc} UTC ({epoch!r})'
GpsLabel(unit, epoch) ==
    [kind |-> "gps", unit |-> unit, utc |-> Iso(epoch), epoch |-> epoch]

\* matplotlib Axis.set_label_text: stores the text and marks the label as
\* customised
set_label_text(ax, text) == [ax EXCEPT !.label = text, !.isDefault_label = FALSE]

Epochs == {None} \cup {Num(e, 0) : e \in 0..MaxEpoch}

AxisStates ==
    { [scale |-> s, epoch |-> e, isDefault_label |-> d,
       label |-> IF d THEN DefaultLabel ELSE CustomLabel] :
         s \in Scales, e \in Epochs, d \in BOOLEAN }

NoCall == [op |-> "none"]
NoBase == [method |-> "none"]

\* a freshly constructed linear axis
FreshAxis == [scale |-> "linear", epoch |-> None, isDefault_label |-> TRUE,
              label |-> DefaultLabel]
AxisWithScale(s) == [FreshAxis EXCEPT !.scale = s]

\* axes.linewidth of the default style, 0.8 points in hundredths
DefaultRc == [axes_linewidth |-> 80]

\* no setup command is involved
NoDist == [t |-> "None"]

\* nothing has been handed to the base class or returned yet
Fresh ==
    /\ dist = NoDist
    /\ base = NoBase
    /\ ret = None
    /\ raised = NoExc

\* the axes with some scale, transform and label state, and no call pending
InitDraw ==
    /\ xaxis \in AxisStates
    /\ yaxis \in AxisStates
    /\ rcParams = DefaultRc
    /\ call = NoCall
    /\ pc = "idle"
    /\ Fresh

\* ---- Axes.draw ----------------------------------------------------------
\* one pass of the loop body of draw for one axis: whether the axis label is
\* replaced, the exception float(trans.get_epoch()) raises when the
\* transform has no epoch, and the axis afterwards
DrawPrepare(ax) ==
    IF ax.scale \in GPS_SCALES /\ ax.isDefault_label
    THEN IF ax.epoch = None
         THEN [replaced |-> FALSE, exc |-> "TypeError", ax |-> ax]
         ELSE [replaced |-> TRUE, exc |-> NoExc,
               ax |-> set_label_text(ax,
                         GpsLabel(get_unit_name(ax.scale), ax.epoch.sec))]
    ELSE [replaced |-> FALSE, exc |-> NoExc, ax |-> ax]

\* the finally block of draw: every axis in `labels` gets its marker back
DrawReset(ax, replaced) ==
    IF replaced THEN [ax EXCEPT !.isDefault_label = TRUE] ELSE ax

draw(baseRaises) ==
    LET px == DrawPrepare(xaxis)
        py == DrawPrepare(yaxis)
    IN  /\ call' = [op |-> "draw", xaxis |-> xaxis, yaxis |-> yaxis,
                    baseRaises |-> baseRaises]
        /\ IF px.exc # NoExc
           THEN \* the x axis fails before anything was replaced
                /\ xaxis' = px.ax
                /\ yaxis' = yaxis
                /\ base' = NoBase
                /\ raised' = px.exc
           ELSE IF py.exc # NoExc
           THEN \* the y axis fails outside the try block: no reset runs
                /\ xaxis' = px.ax
                /\ yaxis' = py.ax
                /\ base' = NoBase
                /\ raised' = py.exc
           ELSE /\ xaxis' = DrawReset(px.ax, px.replaced)
                /\ yaxis' = DrawReset(py.ax, py.replaced)
                /\ base' = [method |-> "draw", xlabel |-> px.ax.label,
                            ylabel |-> py.ax.label]
                /\ raised' = IF baseRaises THEN "RuntimeError" ELSE NoExc
        /\ ret' = None
        /\ UNCHANGED <<rcParams, pc, dist>>

\* ---- Axes.set_epoch -----------------------------------------------------
\* set_xscale(scale, epoch=epoch) with the current scale: fails when the
\* current scale takes no epoch
set_epoch(epoch) ==
    /\ call' = [op |-> "set_epoch", epoch |-> epoch]
    /\ IF xaxis.scale \in GPS_SCALES
       THEN /\ xaxis' = [xaxis EXCEPT !.epoch = epoch]
            /\ raised' = NoExc
       ELSE /\ xaxis' = xaxis
            /\ raised' = "TypeError"
    /\ base' = [method |-> "set_xscale", scale |-> xaxis.scale, epoch |-> epoch]
    /\ ret' = None
    /\ UNCHANGED <<yaxis, rcParams, pc, dist>>

\* ---- gwpy.time.to_gps and the set_xlim wrapper ---------------------------
SecondsPerDay == 86400

Digit(c) ==
    CASE c = "0" -> 0 [] c = "1" -> 1 [] c = "2" -> 2 [] c = "3" -> 3
      [] c = "4" -> 4 [] c = "5" -> 5 [] c = "6" -> 6 [] c = "7" -> 7
      [] c = "8" -> 8 [] c = "9" -> 9 [] OTHER -> -1

\* the calendar strings the model knows: days of January 1980 from the GPS
\* origin (1980-01-06) on, written YYYY-MM-DD
DatePrefix == <<"1", "9", "8", "0", "-", "0", "1", "-">>
IsDate(chars) ==
    /\ Len(chars) = 10
    /\ SubSeq(chars, 1, 8) = DatePrefix
    /\ Digit(chars[9]) >= 0
    /\ Digit(chars[10]) >= 0
    /\ 10 * Digit(chars[9]) + Digit(chars[10]) \in 6..31

\* GPS seconds of midnight UTC of a calendar string
DateToGps(chars) ==
    (10 * Digit(chars[9]) + Digit(chars[10]) - 6) * SecondsPerDay

LIGOTimeGPS(sec, ns) == [t |-> "gps", gpsSeconds |-> sec, gpsNanoSeconds |-> ns]

\* to_gps(t): numbers and calendar strings become a LIGOTimeGPS; None and
\* objects of another type are a TypeError; a string (or tuple) that cannot
\* be read as a date fails with the error the date parser reports, failKind
to_gps(v, failKind) ==
    CASE v.t = "num" -> [exc |-> NoExc, gps |-> LIGOTimeGPS(v.sec, v.ns)]
      [] v.t = "str" ->
            IF IsDate(v.s)
            THEN [exc |-> NoExc, gps |-> LIGOTimeGPS(DateToGps(v.s), 0)]
            ELSE [exc |-> failKind, gps |-> None]
      [] v.t = "seq" -> [exc |-> failKind, gps |-> None]
      [] OTHER -> [exc |-> "TypeError", gps |-> None]

\* numpy.longdouble(str(gps)): the decimal text "sec.nanoseconds" read back
\* as an extended-precision float
longdouble_str(g) ==
    [t |-> "longdouble", sec |-> g.gpsSeconds, ns |-> g.gpsNanoSeconds]

\* matplotlib.cbook.iterable: anything iter() accepts, strings included
iterable(v) == v.t \in {"str", "seq"}

\* `left, right = left`
Unpack(v) ==
    CASE v.t = "seq" ->
            [exc |-> NoExc, left |-> v.items[1], right |-> v.items[2]]
      [] v.t = "str" /\ Len(v.s) = 2 ->
            [exc |-> NoExc, left |-> Str(<<v.s[1]>>), right |-> Str(<<v.s[2]>>)]
      [] OTHER -> [exc |-> "ValueError", left |-> v, right |-> None]

\* the try/except of the wrapper for one key: the exception that leaves the
\* wrapper (only TypeError is caught) and the value kept under the key
ConvertKey(v, failKind) ==
    LET g == to_gps(v, failKind)
    IN  IF g.exc = NoExc THEN [exc |-> NoExc, value |-> longdouble_str(g.gps)]
        ELSE IF g.exc = "TypeError" THEN [exc |-> NoExc, value |-> v]
        ELSE [exc |-> g.exc, value |-> v]

\* wrapped_func of xlim_as_gps: the exception it raises, whether func was
\* called, and the left/right it was called with
xlim_as_gps(scale, left, right, failKind) ==
    LET u == IF right = None /\ iterable(left) THEN Unpack(left)
             ELSE [exc |-> NoExc, left |-> left, right |-> right]
        gpsscale == scale \in GPS_SCALES
        l == IF gpsscale THEN ConvertKey(u.left, failKind)
             ELSE [exc |-> NoExc, value |-> u.left]
        r == IF gpsscale THEN ConvertKey(u.right, failKind)
             ELSE [exc |-> NoExc, value |-> u.right]
    IN  IF u.exc # NoExc THEN [exc |-> u.exc, called |-> FALSE,
                               left |-> None, right |-> None]
        ELSE IF l.exc # NoExc THEN [exc |-> l.exc, called |-> FALSE,
                                    left |-> None, right |-> None]
        ELSE IF r.exc # NoExc THEN [exc |-> r.exc, called |-> FALSE,
                                    left |-> None, right |-> None]
        ELSE [exc |-> NoExc, called |-> TRUE,
              left |-> l.value, right |-> r.value]

set_xlim ==
    LET out == xlim_as_gps(xaxis.scale, call.left, call.right, call.failKind)
    IN  /\ pc = "called"
        /\ call.op = "set_xlim"
        /\ pc' = "returned"
        /\ base' = IF out.called
                   THEN [method |-> "set_xlim", left |-> out.left,
                         right |-> out.right]
                   ELSE NoBase
        /\ raised' = out.exc
        /\ ret' = None
        /\ UNCHANGED <<xaxis, yaxis, rcParams, call, dist>>

\* the bounds set_xlim is tried with
DateStr(d1, d2) == Str(DatePrefix \o <<d1, d2>>)
Numbers == {Num(0, 0), Num(SecondsPerDay, 0), Num(0, 500000000)}
Dates == {DateStr("0", "6"), DateStr("0", "7")}
BadStr == Str(<<"f", "o", "o">>)
Bounds == {None, Obj, BadStr} \cup Numbers \cup Dates
Pairs == {Pair(a, b) : a \in Numbers \cup Dates, b \in Numbers \cup Dates \cup {BadStr}}
FailKinds == {"TypeError", "ValueError"}

XlimCalls ==
    { [op |-> "set_xlim", left |-> l, right |-> r, failKind |-> k] :
        l \in Bounds \cup Pairs, r \in Bounds, k \in FailKinds }

InitXlim ==
    /\ xaxis \in {AxisWithScale(s) : s \in Scales}
    /\ yaxis = FreshAxis
    /\ rcParams = DefaultRc
    /\ call \in XlimCalls
    /\ pc = "called"
    /\ Fresh

\* ---- properties of draw --------------------------------------------------
IsGpsDefault(ax) == ax.scale \in GPS_SCALES /\ ax.isDefault_label

\* C1: for every axis with a GPS scale and a default label when draw is
\* called, the label text after draw equals the label text before draw,
\* whether the delegated base draw returns normally or raises.
C1_LabelTextRestored ==
    (call.op = "draw" /\ base.method = "draw") =>
        /\ IsGpsDefault(call.xaxis) => xaxis.label = call.xaxis.label
        /\ IsGpsDefault(call.yaxis) => yaxis.label = call.yaxis.label

\* C10: on every exit path of draw, every axis whose label draw replaced has
\* its default-label marker back to true, and an axis that is not GPS-scaled
\* or whose label was customised keeps its label text and its marker.
LabelReplaced(before, after) ==
    IsGpsDefault(before) /\ before.epoch # None /\ after.label.kind = "gps"

C10_MarkerRestoredOnEveryExit ==
    call.op = "draw" =>
        /\ LabelReplaced(call.xaxis, xaxis) => xaxis.isDefault_label
        /\ LabelReplaced(call.yaxis, yaxis) => yaxis.isDefault_label
        /\ ~IsGpsDefault(call.xaxis) =>
              /\ xaxis.label = call.xaxis.label
              /\ xaxis.isDefault_label = call.xaxis.isDefault_label
        /\ ~IsGpsDefault(call.yaxis) =>
              /\ yaxis.label = call.yaxis.label
              /\ yaxis.isDefault_label = call.yaxis.isDefault_label

\* ---- properties of set_xlim ---------------------------------------------
\* the numeric GPS value a calendar string stands for
NumericOf(v) ==
    CASE v.t = "str" /\ IsDate(v.s) -> Num(DateToGps(v.s), 0)
      [] v.t = "seq" ->
            Pair(IF v.items[1].t = "str" /\ IsDate(v.items[1].s)
                 THEN Num(DateToGps(v.items[1].s), 0) ELSE v.items[1],
                 IF v.items[2].t = "str" /\ IsDate(v.items[2].s)
                 THEN Num(DateToGps(v.items[2].s), 0) ELSE v.items[2])
      [] OTHER -> v

Convertible(v) == v \in Numbers \cup Dates

\* the call shapes: both bounds, left only, right only, one pair
IsCallShape(c) ==
    \/ Convertible(c.left) /\ Convertible(c.right)
    \/ Convertible(c.left) /\ c.right = None
    \/ c.left = None /\ Convertible(c.right)
    \/ /\ c.left.t = "seq"
       /\ Convertible(c.left.items[1])
       /\ Convertible(c.left.items[2])
       /\ c.right = None

\* C2: on a GPS-scaled x axis, for every call shape, a bound given as a
\* calendar-date string and the same bound given as the equivalent numeric
\* GPS value hand identical left/right values to the base set_xlim, and a
\* bound that was not supplied stays not supplied.
C2_DateStringSameAsNumeric ==
    (pc = "returned" /\ call.op = "set_xlim" /\ xaxis.scale \in GPS_SCALES
       /\ IsCallShape(call)) =>
        LET n == xlim_as_gps(xaxis.scale, NumericOf(call.left),
                             NumericOf(call.right), call.failKind)
        IN  /\ raised = n.exc
            /\ n.called
            /\ base = [method |-> "set_xlim", left |-> n.left,
                       right |-> n.right]
            /\ (call.left = None) => (base.left = None)
            /\ (call.right = None /\ call.left.t # "seq") => (base.right = None)

\* the bound a call supplies on each side, a single pair counted as two
GivenLeft(c) ==
    IF c.right = None /\ c.left.t = "seq" THEN c.left.items[1] ELSE c.left
GivenRight(c) ==
    IF c.right = None /\ c.left.t = "seq" THEN c.left.items[2] ELSE c.right

\* what the base method is to get for a bound: its GPS value when it has one
ExpectedBound(v) ==
    CASE v.t = "num" -> [t |-> "longdouble", sec |-> v.sec, ns |-> v.ns]
      [] v.t = "str" /\ IsDate(v.s) ->
            [t |-> "longdouble", sec |-> DateToGps(v.s), ns |-> 0]
      [] OTHER -> v

\* a lone string as the first argument is taken for a pair before any
\* conversion is tried
ConversionTried(c) == ~(c.right = None /\ c.left.t = "str")

\* C8: on a GPS-scaled x axis a bound whose GPS normalization fails, with
\* whatever error, does not make set_xlim fail: that bound is passed on
\* unchanged and the other bound is still converted; on an x axis that is
\* not GPS-scaled both bounds are passed on unchanged.
C8_ConversionFailureSwallowed ==
    (pc = "returned" /\ call.op = "set_xlim" /\ ConversionTried(call)) =>
        /\ raised = NoExc
        /\ base.method = "set_xlim"
        /\ xaxis.scale \in GPS_SCALES =>
              /\ base.left = ExpectedBound(GivenLeft(call))
              /\ base.right = ExpectedBound(GivenRight(call))
        /\ xaxis.scale \notin GPS_SCALES =>
              /\ base.left = GivenLeft(call)
              /\ base.right = GivenRight(call)

\* ---- Axes.scatter --------------------------------------------------------
Absent == [t |-> "absent"]
Bool(b) == [t |-> "bool", b |-> b]
Array(a) == [t |-> "array", a |-> a]

\* python truth of a keyword value
Truthy(v) == v.t = "bool" /\ v.b

\* kwargs.pop(key, default) and the keyword left behind
PopOr(v, default) == IF v = Absent THEN default ELSE v

\* numpy.asanyarray(c, dtype=float) succeeds: c is an array of numbers
IsNumericArray(c) == c.t = "array"

Perms(n) == {p \in [1..n -> 1..n] : \A i, j \in 1..n : (i # j) => (p[i] # p[j])}

\* c_array.argsort(): some index order that puts the values in ascending
\* order (the default sort is not stable, so ties come in any order)
ArgSorts(a) ==
    {p \in Perms(Len(a)) : \A i \in 1..(Len(a) - 1) : a[p[i]] <= a[p[i + 1]]}

\* fancy indexing a[sortidx]
Take(a, idx) == [i \in 1..Len(idx) |-> a[idx[i]]]

\* scatter with the colours left in their original order
ScatterWithColorUnsorted(c0, sortidx) ==
    IF IsNumericArray(c0.c) /\ Truthy(PopOr(c0.c_sort, Bool(TRUE)))
    THEN [method |-> "scatter", x |-> Take(c0.x, sortidx),
          y |-> Take(c0.y, sortidx), c |-> c0.c, kw_c_sort |-> Absent]
    ELSE [method |-> "scatter", x |-> c0.x, y |-> c0.y, c |-> c0.c,
          kw_c_sort |-> Absent]

\* the body of scatter, for one index order the sort may return
ScatterWith(c0, sortidx) ==
    LET c == IF c0.c = None /\ c0.mpl_old THEN Str(<<"b">>) ELSE c0.c
    IN  IF IsNumericArray(c)
        THEN IF Truthy(PopOr(c0.c_sort, Bool(TRUE)))
             THEN [method |-> "scatter", x |-> Take(c0.x, sortidx),
                   y |-> Take(c0.y, sortidx), c |-> Array(Take(c.a, sortidx)),
                   kw_c_sort |-> Absent]
             ELSE [method |-> "scatter", x |-> c0.x, y |-> c0.y, c |-> c,
                   kw_c_sort |-> Absent]
        ELSE [method |-> "scatter", x |-> c0.x, y |-> c0.y, c |-> c,
              kw_c_sort |-> c0.c_sort]

scatter ==
    /\ pc = "called"
    /\ call.op = "scatter"
    /\ pc' = "returned"
    /\ \E sortidx \in (IF IsNumericArray(call.c) THEN ArgSorts(call.c.a)
                       ELSE {<<>>}) :
          /\ base' = ScatterWith(call, sortidx)
          /\ raised' = NoExc
    /\ ret' = None
    /\ UNCHANGED <<xaxis, yaxis, rcParams, call, dist>>

SeqsOfLen(S, n) == [1..n -> S]
ColorValues == 0..MaxColor
ColorArgs(n) ==
    {Array(a) : a \in SeqsOfLen(ColorValues, n)} \cup {None, Str(<<"r">>)}

\* the coordinates scatter is tried with: all different, all equal, mixed
XArrays(n) == {[i \in 1..n |-> i], [i \in 1..n |-> 0], [i \in 1..n |-> i % 2]}
YArrays(n) == {[i \in 1..n |-> 10 - i], [i \in 1..n |-> 7]}

InitScatter ==
    /\ xaxis = FreshAxis
    /\ yaxis = FreshAxis
    /\ rcParams = DefaultRc
    /\ \E n \in 0..MaxPoints :
         \E x \in XArrays(n), y \in YArrays(n), c \in ColorArgs(n),
            s \in {Absent, Bool(TRUE), Bool(FALSE)}, m \in BOOLEAN :
              call = [op |-> "scatter", x |-> x, y |-> y, c |-> c,
                      c_sort |-> s, mpl_old |-> m]
    /\ pc = "called"
    /\ Fresh

\* C3: scatter with a numeric colour array as long as x and y: with c_sort
\* true (or not given) the x, y and colour sequences handed to the base
\* scatter are one and the same rearrangement of the inputs, with the colours
\* in ascending order; with c_sort false they are handed on in their
\* original order.
IsRearrangement(p, n) ==
    /\ DOMAIN p = 1..n
    /\ \A i \in 1..n : p[i] \in 1..n
    /\ \A i \in 1..n : \E j \in 1..n : p[j] = i

C3_ScatterSortedByColor ==
    (pc = "returned" /\ call.op = "scatter" /\ call.c.t = "array") =>
        LET n == Len(call.c.a)
        IN  IF call.c_sort = Bool(FALSE)
            THEN /\ base.x = call.x
                 /\ base.y = call.y
                 /\ base.c = call.c
            ELSE /\ Len(base.x) = n /\ Len(base.y) = n /\ Len(base.c.a) = n
                 /\ \A i \in 1..(n - 1) : base.c.a[i] <= base.c.a[i + 1]
                 /\ \E p \in [1..n -> 1..n] :
                       /\ IsRearrangement(p, n)
                       /\ \A i \in 1..n :
                             /\ base.x[i] = call.x[p[i]]
                             /\ base.y[i] = call.y[p[i]]
                             /\ base.c.a[i] = call.c.a[p[i]]

\* a sorted call that had to move points: the colours came out of order
C3_Witness ==
    /\ pc = "returned"
    /\ call.op = "scatter"
    /\ call.c.t = "array"
    /\ call.c_sort = Absent
    /\ Len(call.c.a) >= 2
    /\ call.c.a[1] > call.c.a[2]
    /\ call.x[1] # call.x[2]
    /\ base.x # call.x

\* ---- PlotArgsProcessor._grab_next_args ---------------------------------
Series(ndim, xindex, value) ==
    [t |-> "series", ndim |-> ndim, xindex |-> xindex, value |-> value]
Index(a) == [t |-> "index", a |-> a]

\* isinstance(arg, Series) and arg.ndim == 1
IsSeries1D(arg) == arg.t = "series" /\ arg.ndim = 1

RECURSIVE GrabNextArgsAnyDim(_)
GrabNextArgsAnyDim(args) ==
    IF args = <<>> THEN <<>>
    ELSE LET arg == Head(args)
         IN  (IF arg.t = "series" THEN <<Index(arg.xindex), arg>>
              ELSE <<arg>>) \o GrabNextArgsAnyDim(Tail(args))

\* newargs after the loop over args
RECURSIVE GrabNextArgs(_)
GrabNextArgs(args) ==
    IF args = <<>> THEN <<>>
    ELSE LET arg == Head(args)
         IN  (IF IsSeries1D(arg) THEN <<Index(arg.xindex), arg>>
              ELSE <<arg>>) \o GrabNextArgs(Tail(args))

\* a line-plot call reaching the processor
plot ==
    /\ pc = "called"
    /\ call.op = "plot"
    /\ pc' = "returned"
    /\ base' = [method |-> "_grab_next_args", args |-> GrabNextArgs(call.args),
                kw |-> call.kw]
    /\ raised' = NoExc
    /\ ret' = None
    /\ UNCHANGED <<xaxis, yaxis, rcParams, call, dist>>

PlotItems ==
    { Series(1, <<0, 1>>, <<5, 6>>), Series(1, <<2, 3>>, <<7, 8>>),
      Series(2, <<0, 1>>, <<5, 6>>), Array(<<1, 2>>), Str(<<"r", "-">>) }

PlotKws == { [label |-> Absent], [label |-> Str(<<"a">>)] }

PlotCalls ==
    UNION { { [op |-> "plot", args |-> a, kw |-> k] :
                a \in SeqsOfLen(PlotItems, n), k \in PlotKws } : n \in 0..MaxArgs }

InitPlot ==
    /\ xaxis = FreshAxis
    /\ yaxis = FreshAxis
    /\ rcParams = DefaultRc
    /\ call \in PlotCalls
    /\ pc = "called"
    /\ Fresh

\* how many one-dimensional Series come before position i
SeriesBefore(args, i) == Cardinality({j \in 1..(i - 1) : IsSeries1D(args[j])})

\* where the i-th argument lands in the expanded sequence
Landing(args, i) == i + SeriesBefore(args, i)

\* the numbers the base parser reads from an argument
DataOf(item) ==
    CASE item.t = "series" /\ item.ndim = 1 -> Array(item.value)
      [] item.t = "index" -> Array(item.a)
      [] OTHER -> item

\* the same call with every one-dimensional Series written out by hand as
\* its index and its values
RECURSIVE WrittenOut(_)
WrittenOut(args) ==
    IF args = <<>> THEN <<>>
    ELSE (IF IsSeries1D(Head(args))
          THEN <<Array(Head(args).xindex), Array(Head(args).value)>>
          ELSE <<Head(args)>>) \o WrittenOut(Tail(args))

\* C6: the base parser gets the positional arguments with every
\* one-dimensional Series replaced by its index followed by the Series, every
\* other argument as it was and in the same relative order; it reads the same
\* numbers as from the call with index and values written out; the keyword
\* arguments are the caller's.
C6_SeriesExpandedInOrder ==
    (pc = "returned" /\ call.op = "plot") =>
        LET args == call.args
            n == Len(args)
        IN  /\ Len(base.args) = n + SeriesBefore(args, n + 1)
            /\ \A i \in 1..n :
                  IF IsSeries1D(args[i])
                  THEN /\ base.args[Landing(args, i)] = Index(args[i].xindex)
                       /\ base.args[Landing(args, i) + 1] = args[i]
                  ELSE base.args[Landing(args, i)] = args[i]
            /\ [i \in 1..Len(base.args) |-> DataOf(base.args[i])]
                  = [i \in 1..Len(WrittenOut(args)) |->
                        DataOf(GrabNextArgs(WrittenOut(args))[i])]
            /\ base.kw = call.kw

\* a call with a one-dimensional Series between a two-dimensional one and
\* another argument
C6_Witness ==
    /\ pc = "returned"
    /\ call.op = "plot"
    /\ Len(call.args) = 3
    /\ call.args[1].t = "series" /\ call.args[1].ndim = 2
    /\ IsSeries1D(call.args[2])
    /\ call.args[3].t = "str"
    /\ Len(base.args) = 4

\* ---- Axes.plot_mmm --------------------------------------------------------
\* widths and alphas are in hundredths (a width of 150 is 1.5 points, an
\* alpha of 10 is 0.1)
Given(v) == [t |-> "given", v |-> v]

\* alpha = kwargs.pop('alpha', .1)
DefaultMmmAlpha == 10
\* the line width and colour matplotlib gives a line that was given neither
DefaultLineWidth == 150
CycleColor == Str(<<"C", "0">>)

\* self.plot(series, **kw): the arguments the processor hands on and the one
\* line it makes, the id-th artist of the axes
PlotLine(id, series, kw) ==
    [kind |-> "line", id |-> id, args |-> GrabNextArgs(<<series>>),
     linewidth |-> IF kw.linewidth = Absent THEN DefaultLineWidth
                   ELSE kw.linewidth.v,
     color |-> IF kw.color = Absent THEN CycleColor ELSE kw.color,
     alpha |-> kw.alpha, label |-> kw.label, rasterized |-> kw.rasterized]

\* plot_mmm drawing the upper bound before the lower one
PlotMmmUpperFirst(c) ==
    LET alpha == IF c.alpha = Absent THEN DefaultMmmAlpha ELSE c.alpha.v
        kw0 == [linewidth |-> c.linewidth, color |-> c.color, alpha |-> Absent,
                label |-> c.label, rasterized |-> c.rasterized]
        line == PlotLine(1, c.data, kw0)
        kw1 == [kw0 EXCEPT !.label = Str(<<>>),
                           !.linewidth = Given(line.linewidth \div 2),
                           !.color = line.color,
                           !.alpha = Given(alpha * 2)]
        out1 == <<line>>
        out2 == IF c.upper # None
                THEN out1 \o <<PlotLine(Len(out1) + 1, c.upper, kw1)>>
                ELSE out1
        out3 == IF c.lower # None
                THEN out2 \o <<PlotLine(Len(out2) + 1, c.lower, kw1)>>
                ELSE out2
        fill == [kind |-> "fill", id |-> Len(out3) + 1,
                 x |-> Index(c.data.xindex),
                 y1 |-> IF c.lower # None THEN c.lower ELSE c.data,
                 y2 |-> IF c.upper # None THEN c.upper ELSE c.data,
                 alpha |-> alpha, color |-> kw1.color,
                 rasterized |-> IF kw1.rasterized = Absent THEN Bool(TRUE)
                                ELSE kw1.rasterized]
    IN  out3 \o <<fill>>

\* the list plot_mmm returns
PlotMmm(c) ==
    LET alpha == IF c.alpha = Absent THEN DefaultMmmAlpha ELSE c.alpha.v
        kw0 == [linewidth |-> c.linewidth, color |-> c.color, alpha |-> Absent,
                label |-> c.label, rasterized |-> c.rasterized]
        line == PlotLine(1, c.data, kw0)
        kw1 == [kw0 EXCEPT !.label = Str(<<>>),
                           !.linewidth = Given(line.linewidth \div 2),
                           !.color = line.color,
                           !.alpha = Given(alpha * 2)]
        out1 == <<line>>
        out2 == IF c.lower # None
                THEN out1 \o <<PlotLine(Len(out1) + 1, c.lower, kw1)>>
                ELSE out1
        out3 == IF c.upper # None
                THEN out2 \o <<PlotLine(Len(out2) + 1, c.upper, kw1)>>
                ELSE out2
        fill == [kind |-> "fill", id |-> Len(out3) + 1,
                 x |-> Index(c.data.xindex),
                 y1 |-> IF c.lower # None THEN c.lower ELSE c.data,
                 y2 |-> IF c.upper # None THEN c.upper ELSE c.data,
                 alpha |-> alpha, color |-> kw1.color,
                 rasterized |-> IF kw1.rasterized = Absent THEN Bool(TRUE)
                                ELSE kw1.rasterized]
    IN  out3 \o <<fill>>

plot_mmm ==
    /\ pc = "called"
    /\ call.op = "plot_mmm"
    /\ pc' = "returned"
    /\ ret' = [t |-> "list", items |-> PlotMmm(call)]
    /\ base' = [method |-> "plot_mmm", artists |-> Len(ret'.items)]
    /\ raised' = NoExc
    /\ UNCHANGED <<xaxis, yaxis, rcParams, call, dist>>

MmmIndex == <<0, 1>>
MmmSeries == {Series(1, MmmIndex, <<v, v + 1>>) : v \in 1..2}

PlotMmmCalls ==
    { [op |-> "plot_mmm", data |-> d, lower |-> lo, upper |-> up, alpha |-> a,
       linewidth |-> w, color |-> col, label |-> Str(<<"x">>),
       rasterized |-> r] :
         d \in MmmSeries, lo \in MmmSeries \cup {None},
         up \in MmmSeries \cup {None}, a \in {Absent, Given(20)},
         w \in {Absent, Given(200)}, col \in {Absent, Str(<<"r">>)},
         r \in {Absent, Bool(FALSE)} }

InitPlotMmm ==
    /\ xaxis = FreshAxis
    /\ yaxis = FreshAxis
    /\ rcParams = DefaultRc
    /\ call \in PlotMmmCalls
    /\ pc = "called"
    /\ Fresh

\* the artist is the line drawn for the given Series
IsLineOf(artist, series) == artist.kind = "line" /\ artist.args[2] = series

\* C4: plot_mmm returns its artists in creation order: primary, lower,
\* upper, fill with both bounds; primary, lower, fill with only lower;
\* primary, upper, fill with only upper; primary, fill with neither.
C4_ArtistsInCreationOrder ==
    (pc = "returned" /\ call.op = "plot_mmm") =>
        LET out == ret.items
            n == Len(out)
        IN  /\ \A i \in 1..n : out[i].id = i
            /\ IsLineOf(out[1], call.data) /\ out[1].label = call.label
            /\ out[n].kind = "fill"
            /\ (call.lower # None /\ call.upper # None) =>
                  /\ n = 4
                  /\ IsLineOf(out[2], call.lower)
                  /\ IsLineOf(out[3], call.upper)
            /\ (call.lower # None /\ call.upper = None) =>
                  n = 3 /\ IsLineOf(out[2], call.lower)
            /\ (call.lower = None /\ call.upper # None) =>
                  n = 3 /\ IsLineOf(out[2], call.upper)
            /\ (call.lower = None /\ call.upper = None) => n = 2

\* both bounds given, four artists returned
C4_Witness ==
    /\ pc = "returned"
    /\ call.op = "plot_mmm"
    /\ call.lower # None
    /\ call.upper # None
    /\ call.lower # call.upper
    /\ Len(ret.items) = 4

\* ---- Axes.legend ----------------------------------------------------------
\* alpha = kwargs.pop("alpha", 0.8), in hundredths
DefaultLegendAlpha == 80
\* linewidth = kwargs.pop("linewidth", 8), in hundredths of a point
DefaultLegendLinewidth == 800

\* the keywords left in kwargs for the base legend
LegendForwarded(c) ==
    [loc |-> c.loc, alpha |-> Absent, linewidth |-> Absent]

\* the legend the base class made, after the frame and the sample lines
\* were restyled; None when the base class made none
LegendHardwired(c, rc) ==
    IF c.baseLegend = None THEN None
    ELSE [t |-> "legend",
          frame |-> [alpha |-> DefaultLegendAlpha,
                     linewidth |-> c.baseLegend.frame.linewidth],
          lines |-> [i \in 1..Len(c.baseLegend.lines) |->
                        DefaultLegendLinewidth]]
LegendStyled(c, rc) ==
    LET alpha == IF c.alpha = Absent THEN DefaultLegendAlpha ELSE c.alpha.v
        linewidth == IF c.linewidth = Absent THEN DefaultLegendLinewidth
                     ELSE c.linewidth.v
    IN  IF c.baseLegend = None THEN None
        ELSE [t |-> "legend",
              frame |-> [alpha |-> alpha, linewidth |-> rc.axes_linewidth],
              lines |-> [i \in 1..Len(c.baseLegend.lines) |-> linewidth]]

legend ==
    /\ pc = "called"
    /\ call.op = "legend"
    /\ pc' = "returned"
    /\ base' = [method |-> "legend", kw |-> LegendForwarded(call)]
    /\ ret' = LegendStyled(call, rcParams)
    /\ raised' = NoExc
    /\ UNCHANGED <<xaxis, yaxis, rcParams, call, dist>>

\* the legend as the base class makes it: a frame and n sample lines in the
\* base style
BaseLegend(n) ==
    [t |-> "legend", frame |-> [alpha |-> 100, linewidth |-> 100],
     lines |-> [i \in 1..n |-> DefaultLineWidth]]

RcStates == {[axes_linewidth |-> 80 * k] : k \in 1..MaxRcWidth}

LegendCalls ==
    { [op |-> "legend", alpha |-> a, linewidth |-> w, loc |-> l,
       baseLegend |-> b] :
         a \in {Absent, Given(50), Given(DefaultLegendAlpha)},
         w \in {Absent, Given(200)},
         l \in {Absent, Str(<<"b", "e", "s", "t">>)},
         b \in {None} \cup {BaseLegend(n) : n \in 0..2} }

InitLegend ==
    /\ xaxis = FreshAxis
    /\ yaxis = FreshAxis
    /\ rcParams \in RcStates
    /\ call \in LegendCalls
    /\ pc = "called"
    /\ Fresh

\* C5: when the base class returns a legend, its frame alpha is the given
\* alpha or 0.8, every sample line has the given linewidth or 8, the frame
\* border has the global axes.linewidth, and neither alpha nor linewidth is
\* forwarded to the base legend call.
C5_LegendStyle ==
    (pc = "returned" /\ call.op = "legend" /\ call.baseLegend # None) =>
        /\ call.alpha = Absent => ret.frame.alpha = 80
        /\ call.alpha # Absent => ret.frame.alpha = call.alpha.v
        /\ Len(ret.lines) = Len(call.baseLegend.lines)
        /\ \A i \in 1..Len(ret.lines) :
              /\ call.linewidth = Absent => ret.lines[i] = 800
              /\ call.linewidth # Absent => ret.lines[i] = call.linewidth.v
        /\ ret.frame.linewidth = rcParams.axes_linewidth
        /\ base.kw.alpha = Absent
        /\ base.kw.linewidth = Absent
        /\ base.kw.loc = call.loc

\* a legend with sample lines, restyled with an explicit alpha and the
\* default linewidth under a non-default rc setting
C5_Witness ==
    /\ pc = "returned"
    /\ call.op = "legend"
    /\ call.baseLegend # None
    /\ Len(call.baseLegend.lines) = 2
    /\ call.alpha = Given(50)
    /\ call.linewidth = Absent
    /\ rcParams.axes_linewidth # 80
    /\ ret.frame.alpha = 50

\* ---- Axes.imshow ----------------------------------------------------------
Float(n) == [t |-> "float", n |-> n]
\* the literal 1e-300
Tiny == [t |-> "float", mantissa |-> 1, exponent |-> -300]

Array2D(xspan, yspan) == [t |-> "array2d", xspan |-> xspan, yspan |-> yspan]
Grid == [t |-> "grid"]

\* gwpy.plot.colors.format_norm: the Normalize object for the norm keyword
format_norm(norm) ==
    IF norm = Absent \/ norm = None THEN None
    ELSE IF norm.t = "str" THEN [t |-> "LogNorm"]
    ELSE norm

\* the extent with the x boundary replaced whatever the y scale is asked for
ExtentOfXOnly(array, xscale, yscale) ==
    LET extent == array.xspan \o array.yspan
    IN  IF (xscale = "log" \/ yscale = "log") /\ extent[1] = Float(0)
        THEN <<Tiny>> \o SubSeq(extent, 2, 4)
        ELSE extent

\* the extent _imshow_array2d works out
ExtentOf(array, xscale, yscale) ==
    LET extent == array.xspan \o array.yspan
        extent1 == IF xscale = "log" /\ extent[1] = Float(0)
                   THEN <<Tiny>> \o SubSeq(extent, 2, 4)
                   ELSE extent
        extent2 == IF yscale = "log" /\ extent1[3] = Float(0)
                   THEN SubSeq(extent1, 1, 2) \o <<Tiny>> \o SubSeq(extent1, 4, 4)
                   ELSE extent1
    IN  extent2

\* what imshow hands to the base imshow
ImshowBase(c, xscale, yscale) ==
    IF c.array.t = "array2d"
    THEN [method |-> "imshow", data |-> "array.value.T",
          extent |-> IF c.extent = Absent
                     THEN Given(ExtentOf(c.array, xscale, yscale))
                     ELSE c.extent,
          origin |-> IF c.origin = Absent THEN Str(<<"l", "o", "w", "e", "r">>)
                     ELSE c.origin,
          aspect |-> Str(<<"a", "u", "t", "o">>),
          interpolation |-> Str(<<"n", "o", "n", "e">>),
          norm |-> format_norm(format_norm(c.norm))]
    ELSE [method |-> "imshow", data |-> "array", extent |-> c.extent,
          origin |-> c.origin, aspect |-> Absent, interpolation |-> Absent,
          norm |-> format_norm(c.norm)]

imshow ==
    /\ pc = "called"
    /\ call.op = "imshow"
    /\ pc' = "returned"
    /\ base' = ImshowBase(call, xaxis.scale, yaxis.scale)
    /\ ret' = [t |-> "image", autoscaled |-> TRUE]
    /\ raised' = NoExc
    /\ UNCHANGED <<xaxis, yaxis, rcParams, call, dist>>

Spans == {<<Float(a), Float(a + 1)>> : a \in 0..MaxSpan}
CallerExtent == Given(<<Float(5), Float(6), Float(7), Float(8)>>)

ImshowCalls ==
    { [op |-> "imshow", array |-> a, extent |-> e, origin |-> o, norm |-> n] :
        a \in {Array2D(xs, ys) : xs \in Spans, ys \in Spans} \cup {Grid},
        e \in {Absent, CallerExtent},
        o \in {Absent, Str(<<"u", "p", "p", "e", "r">>)},
        n \in {Absent, Str(<<"l", "o", "g">>)} }

InitImshow ==
    /\ xaxis \in {AxisWithScale(s) : s \in Scales}
    /\ yaxis \in {AxisWithScale(s) : s \in Scales}
    /\ rcParams = DefaultRc
    /\ call \in ImshowCalls
    /\ pc = "called"
    /\ Fresh

\* C7: imshow of a 2D Array without a caller extent hands the base imshow
\* (xspan start, xspan end, yspan start, yspan end), except that the start of
\* an axis that is log-scaled and whose span starts at 0 is 1e-300; the two
\* axes are treated independently.
C7_ExtentAvoidsLogZero ==
    (pc = "returned" /\ call.op = "imshow" /\ call.array.t = "array2d"
       /\ call.extent = Absent) =>
        LET e == base.extent.v
            a == call.array
        IN  /\ Len(e) = 4
            /\ e[1] = IF xaxis.scale = "log" /\ a.xspan[1] = Float(0)
                      THEN Tiny ELSE a.xspan[1]
            /\ e[2] = a.xspan[2]
            /\ e[3] = IF yaxis.scale = "log" /\ a.yspan[1] = Float(0)
                      THEN Tiny ELSE a.yspan[1]
            /\ e[4] = a.yspan[2]

\* a log x axis and a linear y axis, both spans starting at 0: only the x
\* boundary is replaced
C7_Witness ==
    /\ pc = "returned"
    /\ call.op = "imshow"
    /\ call.array.t = "array2d"
    /\ call.extent = Absent
    /\ xaxis.scale = "log"
    /\ yaxis.scale = "linear"
    /\ call.array.xspan[1] = Float(0)
    /\ call.array.yspan[1] = Float(0)
    /\ base.extent.v[1] = Tiny
    /\ base.extent.v[3] = Float(0)

\* ---- Axes.colorbar --------------------------------------------------------
\* kwargs after the two setdefault calls, with use_axesgrid defaulted to
\* True whatever fraction was asked for
ColorbarDefaultsAlwaysGrid(c) ==
    LET fraction == IF Truthy(PopOr(c.use_axesgrid, Bool(TRUE)))
                    THEN PopOr(c.fraction, Given(0)) ELSE c.fraction
    IN  [use_axesgrid |-> PopOr(c.use_axesgrid, Bool(TRUE)),
         fraction |-> fraction]

\* kwargs after the two setdefault calls
ColorbarDefaults(c) ==
    LET fraction == IF Truthy(PopOr(c.use_axesgrid, Bool(TRUE)))
                    THEN PopOr(c.fraction, Given(0)) ELSE c.fraction
        use_axesgrid == IF PopOr(fraction, Given(0)) = Given(0)
                        THEN PopOr(c.use_axesgrid, Bool(TRUE))
                        ELSE c.use_axesgrid
    IN  [use_axesgrid |-> use_axesgrid, fraction |-> fraction]

\* gwpy.plot.colorbar.process_colorbar_kwargs: the keywords it returns; the
\* use_axesgrid among them is its own choice
process_colorbar_kwargs(kw, returned) ==
    [use_axesgrid |-> returned, fraction |-> kw.fraction]

\* the figure's colorbar method given the processor's keywords as they are
ColorbarFigureKwAsProcessed(c) ==
    process_colorbar_kwargs(ColorbarDefaults(c), c.processed)

\* the keywords handed to the figure's colorbar method
ColorbarFigureKw(c) ==
    LET kw == process_colorbar_kwargs(ColorbarDefaults(c), c.processed)
    IN  IF c.figIsPlot THEN [kw EXCEPT !.use_axesgrid = Bool(FALSE)] ELSE kw

colorbar ==
    /\ pc = "called"
    /\ call.op = "colorbar"
    /\ pc' = "returned"
    /\ base' = [method |-> "colorbar", mappable |-> call.mappable,
                processor_kw |-> ColorbarDefaults(call),
                figure_kw |-> ColorbarFigureKw(call)]
    /\ ret' = [t |-> "colorbar"]
    /\ raised' = NoExc
    /\ UNCHANGED <<xaxis, yaxis, rcParams, call, dist>>

\* fraction=0.15, the matplotlib default, in hundredths
ColorbarCalls ==
    { [op |-> "colorbar", mappable |-> m, use_axesgrid |-> u, fraction |-> f,
       figIsPlot |-> p, processed |-> r] :
         m \in {None, [t |-> "image"]},
         u \in {Absent, Bool(TRUE), Bool(FALSE)},
         f \in {Absent, Given(0), Given(15)},
         p \in BOOLEAN,
         r \in {Absent, Bool(TRUE), Bool(FALSE)} }

InitColorbar ==
    /\ xaxis = FreshAxis
    /\ yaxis = FreshAxis
    /\ rcParams = DefaultRc
    /\ call \in ColorbarCalls
    /\ pc = "called"
    /\ Fresh

\* C9: in the options handed to the colorbar keyword processor: with neither
\* option given use_axesgrid is true and fraction 0; with a non-zero fraction
\* and no use_axesgrid, use_axesgrid is not defaulted to true; with
\* use_axesgrid=False and no fraction, fraction is not defaulted to 0; an
\* option the caller gave is never overwritten.
C9_ColorbarDefaults ==
    (pc = "returned" /\ call.op = "colorbar") =>
        LET kw == base.processor_kw
        IN  /\ (call.use_axesgrid = Absent /\ call.fraction = Absent) =>
                  kw.use_axesgrid = Bool(TRUE) /\ kw.fraction = Given(0)
            /\ (call.use_axesgrid = Absent /\ call.fraction # Absent
                  /\ call.fraction # Given(0)) =>
                  kw.use_axesgrid # Bool(TRUE)
            /\ (call.use_axesgrid = Bool(FALSE) /\ call.fraction = Absent) =>
                  kw.fraction # Given(0)
            /\ call.use_axesgrid # Absent => kw.use_axesgrid = call.use_axesgrid
            /\ call.fraction # Absent => kw.fraction = call.fraction

\* a non-zero fraction without use_axesgrid: the processor gets no
\* use_axesgrid at all
C9_Witness ==
    /\ pc = "returned"
    /\ call.op = "colorbar"
    /\ call.use_axesgrid = Absent
    /\ call.fraction = Given(15)
    /\ base.processor_kw.use_axesgrid = Absent
    /\ base.processor_kw.fraction = Given(15)

\* C11: when the figure is a Plot and a zero fraction was requested, the
\* options handed to the figure's colorbar method have use_axesgrid = False,
\* whatever the caller gave and whatever the keyword processor returned; for
\* any other figure the use_axesgrid the processor returned is handed on.
C11_GridForcedOffOnPlot ==
    (pc = "returned" /\ call.op = "colorbar") =>
        /\ (call.figIsPlot /\ base.processor_kw.fraction = Given(0)) =>
              base.figure_kw.use_axesgrid = Bool(FALSE)
        /\ ~call.figIsPlot => base.figure_kw.use_axesgrid = call.processed

\* a Plot figure, the default zero fraction, the caller asking for grid
\* management and the processor returning it switched on
C11_Witness ==
    /\ pc = "returned"
    /\ call.op = "colorbar"
    /\ call.figIsPlot
    /\ call.fraction = Absent
    /\ call.use_axesgrid = Bool(TRUE)
    /\ call.processed = Bool(TRUE)
    /\ base.processor_kw.fraction = Given(0)
    /\ base.figure_kw.use_axesgrid = Bool(FALSE)

\* C12: whatever the colour argument and the c_sort value, c_sort is never
\* forwarded to the base scatter; with a non-numeric or absent colour
\* argument x, y and c reach the base scatter unchanged and scatter itself
\* does not raise.
C12_CSortNeverForwarded ==
    (pc = "returned" /\ call.op = "scatter") =>
        /\ base.kw_c_sort = Absent
        /\ call.c.t # "array" =>
              /\ base.x = call.x
              /\ base.y = call.y
              /\ (call.c # None \/ ~call.mpl_old) => base.c = call.c
              /\ raised = NoExc

\* ---- setup_utils: changelog, bdist_spec, egg_info -------------------------
\* have_run of the Distribution: a command has no entry ("missing"), an
\* entry 0 set when its object was created ("created"), or 1 ("run")
HaveRunStates == {"missing", "created", "run"}

TmpPath == "tmp"
DebPath == "debian/changelog"
TxtPath == "changelog.txt"
SpecPath == "gwpy.spec"
Paths == {TmpPath, DebPath, TxtPath, SpecPath}

NoFile == [t |-> "nofile"]
Explicit == [t |-> "explicit"]

\* changelog.initialize_options; a start_tag of 0 stands for None
ChangelogDefaults == [format |-> "rpm", output |-> TxtPath, start_tag |-> 0]

\* format_changelog_entry
format_changelog_entry(format, tag) == [format |-> format, version |-> tag]

\* get_git_tags: the tags, newest first
RECURSIVE Reverse(_)
Reverse(q) == IF q = <<>> THEN <<>> ELSE Append(Reverse(Tail(q)), Head(q))

\* the loop of changelog.run over the tags, stopping at the first tag older
\* than start_tag
RECURSIVE ChangelogLines(_, _, _)
ChangelogLines(tags, start_tag, format) ==
    IF tags = <<>> THEN <<>>
    ELSE IF start_tag # 0 /\ Head(tags) < start_tag THEN <<>>
    ELSE <<format_changelog_entry(format, Head(tags))>>
            \o ChangelogLines(Tail(tags), start_tag, format)

\* changelog.run: the lines are written to self.output
ChangelogRun(d) ==
    [d EXCEPT !.gen = d.gen + 1,
              !.files[d.changelog.output] =
                  [t |-> "changelog", gen |-> d.gen + 1,
                   lines |-> ChangelogLines(Reverse(d.tags),
                                            d.changelog.start_tag,
                                            d.changelog.format)],
              !.steps = Append(d.steps, IF d.changelog.format = "deb"
                                        THEN "changelog_deb"
                                        ELSE "changelog_rpm")]

\* Distribution.get_command_obj('changelog'): the cached object, or a new
\* one, which also gives the command its have_run entry
GetChangelogObj(d) ==
    IF d.changelog_obj THEN d
    ELSE [d EXCEPT !.changelog_obj = TRUE,
                   !.changelog = ChangelogDefaults,
                   !.have_run.changelog = "created"]

\* Distribution._set_command_options for format and output
SetChangelogOptions(d, format, output) ==
    [d EXCEPT !.changelog.format = format, !.changelog.output = output]

\* run_command('changelog'): nothing when the command is recorded as run
RunChangelogCommand(d) ==
    IF d.have_run.changelog = "run" THEN d
    ELSE LET d1 == GetChangelogObj(d)
         IN  [ChangelogRun(d1) EXCEPT !.have_run.changelog = "run"]

\* bdist_spec.run
BdistSpecRun(d) ==
    LET d0 == [d EXCEPT !.steps = Append(d.steps, "bdist_spec")]
        d1 == IF d0.spec_changelog = None
              THEN LET a == SetChangelogOptions(GetChangelogObj(d0), "rpm",
                                                TmpPath)
                       b == RunChangelogCommand(a)
                       read == IF b.files[TmpPath] = NoFile
                               THEN [gen |-> 0, lines |-> <<>>]
                               ELSE [gen |-> b.files[TmpPath].gen,
                                     lines |-> b.files[TmpPath].lines]
                   IN  [b EXCEPT !.spec_changelog =
                                     [t |-> "generated", gen |-> read.gen,
                                      lines |-> read.lines],
                                 !.files[TmpPath] = NoFile]
              ELSE d0
    IN  [d1 EXCEPT !.files[SpecPath] =
                       [t |-> "spec", changelog |-> d1.spec_changelog]]

\* run_command('bdist_spec')
RunBdistSpecCommand(d) ==
    IF d.have_run.bdist_spec = "run" THEN d
    ELSE [BdistSpecRun(d) EXCEPT !.have_run.bdist_spec = "run"]

\* egg_info.run: the exception that leaves it and the distribution after
EggInfoRun(d) ==
    LET d1 == RunBdistSpecCommand(d)
    IN  IF d1.have_run.changelog = "missing"
        THEN [exc |-> "KeyError", dist |-> d1]
        ELSE LET d2 == [d1 EXCEPT !.have_run.changelog = "missing"]
                 d3 == SetChangelogOptions(GetChangelogObj(d2), "deb", DebPath)
                 d4 == RunChangelogCommand(d3)
             IN  [exc |-> NoExc,
                  dist |-> [d4 EXCEPT !.steps = Append(d4.steps, "egg_info")]]

egg_info ==
    /\ pc = "called"
    /\ call.op = "egg_info"
    /\ pc' = "returned"
    /\ dist' = EggInfoRun(dist).dist
    /\ raised' = EggInfoRun(dist).exc
    /\ base' = IF raised' = NoExc THEN [method |-> "egg_info.run"] ELSE NoBase
    /\ ret' = None
    /\ UNCHANGED <<xaxis, yaxis, rcParams, call>>

\* the distribution when egg_info starts: which commands were run before it
\* in this process, the options they were given, the files on disk
InitEggInfo ==
    /\ xaxis = FreshAxis
    /\ yaxis = FreshAxis
    /\ rcParams = DefaultRc
    /\ base = NoBase
    /\ ret = None
    /\ raised = NoExc
    /\ pc = "called"
    /\ \E hc \in HaveRunStates, hb \in HaveRunStates,
          sc \in {None, Explicit, [t |-> "generated", gen |-> 0, lines |-> <<>>]},
          fmt \in {"rpm", "deb"}, out \in {TxtPath, DebPath},
          st \in 0..MaxTags, n \in 0..MaxTags, stale \in BOOLEAN :
         /\ (hb = "run") => (sc # None)
         /\ (sc.t = "generated") => (hb = "run" /\ hc = "run")
         /\ (hc = "missing") =>
               [format |-> fmt, output |-> out, start_tag |-> st]
                  = ChangelogDefaults
         /\ dist = [t |-> "dist",
                    have_run |-> [changelog |-> hc, bdist_spec |-> hb],
                    changelog_obj |-> (hc # "missing"),
                    changelog |-> [format |-> fmt, output |-> out,
                                   start_tag |-> st],
                    spec_changelog |-> sc,
                    tags |-> [i \in 1..n |-> i],
                    files |-> [p \in Paths |->
                                 IF p = DebPath /\ stale
                                 THEN [t |-> "changelog", gen |-> 0,
                                       lines |-> <<>>]
                                 ELSE NoFile],
                    gen |-> 0,
                    steps |-> <<>>]
         /\ call = [op |-> "egg_info", prior |-> dist]

\* the steps of one kind, in the order they were performed
RECURSIVE Only(_, _)
Only(steps, kinds) ==
    IF steps = <<>> THEN <<>>
    ELSE (IF Head(steps) \in kinds THEN <<Head(steps)>> ELSE <<>>)
            \o Only(Tail(steps), kinds)

\* C13: egg_info always gets the spec file made by bdist_spec first, then
\* runs changelog in 'deb' format into debian/changelog, then the original
\* egg_info; the last two are reached and debian/changelog is regenerated
\* whatever commands were already run and whether or not bdist_spec was
\* given a changelog; a changelog bdist_spec generates itself is the 'rpm'
\* output of a changelog run made for it.
C13_EggInfoAlwaysRegenerates ==
    (pc = "returned" /\ call.op = "egg_info") =>
        LET deb == dist.files[DebPath]
            prior == call.prior
        IN  /\ raised = NoExc
            /\ dist.have_run.bdist_spec = "run"
            /\ Only(dist.steps, {"bdist_spec", "changelog_deb", "egg_info"})
                  = (IF prior.have_run.bdist_spec = "run" THEN <<>>
                     ELSE <<"bdist_spec">>) \o <<"changelog_deb", "egg_info">>
            /\ deb # NoFile
            /\ deb.gen > 0
            /\ Len(deb.lines) = Len(ChangelogLines(Reverse(prior.tags),
                                       dist.changelog.start_tag, "deb"))
            /\ \A i \in 1..Len(deb.lines) : deb.lines[i].format = "deb"
            /\ (prior.spec_changelog = None) =>
                  /\ dist.spec_changelog.t = "generated"
                  /\ dist.spec_changelog.gen > 0
                  /\ \A i \in 1..Len(dist.spec_changelog.lines) :
                        dist.spec_changelog.lines[i].format = "rpm"

\* ---- specifications ---------------------------------------------------
NextDraw ==
    \/ \E b \in BOOLEAN : draw(b)
    \/ \E e \in Epochs \ {None} : set_epoch(e)

SpecDraw == InitDraw /\ [][NextDraw]_vars

SpecXlim == InitXlim /\ [][set_xlim]_vars

SpecScatter == InitScatter /\ [][scatter]_vars

SpecPlot == InitPlot /\ [][plot]_vars

SpecPlotMmm == InitPlotMmm /\ [][plot_mmm]_vars

SpecLegend == InitLegend /\ [][legend]_vars

SpecImshow == InitImshow /\ [][imshow]_vars

SpecColorbar == InitColorbar /\ [][colorbar]_vars

SpecEggInfo == InitEggInfo /\ [][egg_info]_vars
====
